---- MODULE Spec2Model ----
(***************************************************************************)
(* A model of the validation engine of does-it-json (src/src/schema.rs,    *)
(* entry point src/src/lib.rs).                                            *)
(*                                                                         *)
(* The engine is a recursive function over immutable inputs.  The model    *)
(* keeps the inputs of the top-level call, the chain of frames that        *)
(* `$ref` resolution opens (each frame is one run of                       *)
(* validate_schema_object), the position inside the top frame (one         *)
(* position per keyword group, in the order of the source), the result,    *)
(* and the log of the validate_schema calls made so far.  The calls a      *)
(* keyword group makes on sub-schemas are evaluated by the recursive       *)
(* operator validate_schema, which composes the same keyword-group         *)
(* operators the actions use.                                              *)
(*                                                                         *)
(* Strings (string values, object keys, patterns, references) are          *)
(* sequences of one-character strings.  A path and the details of an       *)
(* error are sequences of string chunks whose concatenation is the text    *)
(* the code formats.  Numbers are small integers, each with a flag that    *)
(* says whether serde_json holds it as an f64.  A TLA+ string holds no     *)
(* backquote: the messages of the code are written with ' in its place.    *)
(***************************************************************************)
EXTENDS Integers, Sequences, FiniteSets, TLC

VARIABLES definitions, value, stack, pc, result, calls

vars == <<definitions, value, stack, pc, result, calls>>

----------------------------------------------------------------------------
(* Bounds of the model *)

\* longest allOf / anyOf / oneOf list drawn
MaxSubs == 3
\* longest pattern drawn over backslash, slash and a
MaxPatLen == 4
\* longest array value drawn
MaxItems == 3
\* numbers are drawn from -MaxNum .. MaxNum
MaxNum == 2
\* deepest chain of frames (`$ref` inside `$ref`) the model follows
MaxDepth == 3
\* an object value holds at most MaxProps properties
MaxProps == 2
\* a root drawn to order its keyword groups sets at most MaxGroups of them
MaxGroups == 3
\* longest per-index list of items schemas drawn
MaxList == 2

----------------------------------------------------------------------------
(* Option<T>: None is the empty sequence, Some(x) the one-element sequence *)

None == <<>>

Some(x) == <<x>>

IsSome(o) == Len(o) = 1

Unwrap(o) == o[1]

----------------------------------------------------------------------------
(* serde_json::Value *)

VNull == [t |-> "null"]

VBool(b) == [t |-> "bool", b |-> b]

\* an integer (PosInt / NegInt) when isf is FALSE, an f64 when TRUE
VNum(n, isf) == [t |-> "num", n |-> n, f |-> isf]

VInt(n) == VNum(n, FALSE)

VStr(s) == [t |-> "str", s |-> s]

VArr(a) == [t |-> "arr", a |-> a]

\* an object is the sequence of its entries [k, v] in iteration order
VObj(m) == [t |-> "obj", m |-> m]

Entry(k, v) == [k |-> k, v |-> v]

RECURSIVE ValEq(_, _)
\* PartialEq of serde_json::Value: structural; an integer never equals an f64
ValEq(a, b) ==
    IF a.t # b.t THEN FALSE
    ELSE CASE a.t = "null" -> TRUE
           [] a.t = "bool" -> a.b = b.b
           [] a.t = "num" -> a.f = b.f /\ a.n = b.n
           [] a.t = "str" -> a.s = b.s
           [] a.t = "arr" ->
                /\ Len(a.a) = Len(b.a)
                /\ \A i \in 1..Len(a.a) : ValEq(a.a[i], b.a[i])
           [] OTHER ->
                /\ Len(a.m) = Len(b.m)
                /\ \A i \in 1..Len(a.m) : \E j \in 1..Len(b.m) :
                      a.m[i].k = b.m[j].k /\ ValEq(a.m[i].v, b.m[j].v)

----------------------------------------------------------------------------
(* schemars::schema::Schema *)

SchemaBool(b) == [kind |-> "Bool", b |-> b]

\* SchemaObject::default(): every keyword group absent
DefaultObject ==
    [kind |-> "Object", instance_type |-> None, enum_values |-> None,
     const_value |-> None, subschemas |-> None, number |-> None,
     string |-> None, array |-> None, object |-> None, reference |-> None]

DefaultSubschemas ==
    [all_of |-> None, any_of |-> None, one_of |-> None, not |-> None,
     if_schema |-> None, then_schema |-> None, else_schema |-> None]

DefaultNumber ==
    [multiple_of |-> None, maximum |-> None, exclusive_maximum |-> None,
     minimum |-> None, exclusive_minimum |-> None]

DefaultString == [max_length |-> None, min_length |-> None, pattern |-> None]

DefaultArray ==
    [items |-> None, additional_items |-> None, max_items |-> None,
     min_items |-> None, unique_items |-> None, contains |-> None]

\* properties and pattern_properties are sequences of entries [k, v];
\* required is a sequence of names
DefaultObjectValidation ==
    [max_properties |-> None, min_properties |-> None, required |-> <<>>,
     properties |-> <<>>, pattern_properties |-> <<>>,
     additional_properties |-> None, property_names |-> None]

\* SingleOrVec<T>
Single(x) == [single |-> TRUE, v |-> <<x>>]

Vec(xs) == [single |-> FALSE, v |-> xs]

----------------------------------------------------------------------------
(* Result<(), Error>, with the log of the validate_schema calls made: one   *)
(* entry per call, in the order the calls start                            *)

Ok(log) == [kind |-> "Ok", path |-> <<>>, details |-> <<>>, calls |-> log]

InvalidValue(path, details, log) ==
    [kind |-> "InvalidValue", path |-> path, details |-> details, calls |-> log]

InvalidSchema(path, details, log) ==
    [kind |-> "InvalidSchema", path |-> path, details |-> details, calls |-> log]

\* a panic (an `unwrap` of a failed Regex::new) is no Result: it unwinds
\* through every caller, `is_ok` and `is_err` never see it
Panic(details, log) ==
    [kind |-> "Panic", path |-> <<>>, details |-> details, calls |-> log]

is_ok(r) == r.kind = "Ok"

is_err(r) == r.kind \in {"InvalidValue", "InvalidSchema"}

panicked(r) == r.kind = "Panic"

\* r with the calls made before it put in front of its own
After(log, r) == [r EXCEPT !.calls = log \o r.calls]

----------------------------------------------------------------------------
(* The regex crate, over the patterns the model draws: literals, escaped   *)
(* meta characters, \d, the anchors ^ and $, a class [x-y] of digits and   *)
(* a counted repetition {m} or {m,n} with one-digit counts.                *)

Backslash == "\\"

Slash == "/"

DigitSeq == <<"0", "1", "2", "3", "4", "5", "6", "7", "8", "9">>

Digits == {DigitSeq[i] : i \in 1..Len(DigitSeq)}

DigitVal(c) == (CHOOSE i \in 1..Len(DigitSeq) : DigitSeq[i] = c) - 1

\* regex_syntax::is_meta_character
MetaChars ==
    {"\\", ".", "+", "*", "?", "(", ")", "|", "[", "]", "{", "}", "^", "$",
     "#", "&", "-", "~"}

At(p, i) == IF i >= 1 /\ i <= Len(p) THEN p[i] ELSE ""

\* one atom of the pattern p at index i: [ok, set, next]
regex_atom(p, i) ==
    LET c == At(p, i) IN
    IF c = Backslash THEN
        LET e == At(p, i + 1) IN
        IF e \in MetaChars THEN [ok |-> TRUE, set |-> {e}, next |-> i + 2]
        ELSE IF e = "d" THEN [ok |-> TRUE, set |-> Digits, next |-> i + 2]
        \* an unrecognized escape (`\/` is one) or a trailing backslash
        ELSE [ok |-> FALSE, set |-> {}, next |-> i]
    ELSE IF c = "[" THEN
        IF /\ At(p, i + 1) \in Digits /\ At(p, i + 2) = "-"
           /\ At(p, i + 3) \in Digits /\ At(p, i + 4) = "]"
           /\ DigitVal(At(p, i + 1)) <= DigitVal(At(p, i + 3))
        THEN [ok |-> TRUE,
              set |-> {d \in Digits : /\ DigitVal(At(p, i + 1)) <= DigitVal(d)
                                      /\ DigitVal(d) <= DigitVal(At(p, i + 3))},
              next |-> i + 5]
        ELSE [ok |-> FALSE, set |-> {}, next |-> i]
    \* a repetition with nothing to repeat
    ELSE IF c = "{" THEN [ok |-> FALSE, set |-> {}, next |-> i]
    ELSE [ok |-> TRUE, set |-> {c}, next |-> i + 1]

\* the counted repetition that may follow an atom, at index i: [ok, min, max, next]
regex_repetition(p, i) ==
    IF At(p, i) # "{" THEN [ok |-> TRUE, min |-> 1, max |-> 1, next |-> i]
    ELSE IF At(p, i + 1) \in Digits /\ At(p, i + 2) = "}"
    THEN [ok |-> TRUE, min |-> DigitVal(At(p, i + 1)),
          max |-> DigitVal(At(p, i + 1)), next |-> i + 3]
    ELSE IF /\ At(p, i + 1) \in Digits /\ At(p, i + 2) = ","
            /\ At(p, i + 3) \in Digits /\ At(p, i + 4) = "}"
            /\ DigitVal(At(p, i + 1)) <= DigitVal(At(p, i + 3))
    THEN [ok |-> TRUE, min |-> DigitVal(At(p, i + 1)),
          max |-> DigitVal(At(p, i + 3)), next |-> i + 5]
    ELSE [ok |-> FALSE, min |-> 0, max |-> 0, next |-> i]

RECURSIVE regex_parse(_, _, _)
\* Regex::new: the items of pattern p from index i on, after the items acc
regex_parse(p, i, acc) ==
    IF i > Len(p) THEN [ok |-> TRUE, items |-> acc]
    ELSE IF p[i] = "^" THEN regex_parse(p, i + 1, Append(acc, [kind |-> "start"]))
    ELSE IF p[i] = "$" THEN regex_parse(p, i + 1, Append(acc, [kind |-> "end"]))
    ELSE LET a == regex_atom(p, i)
             r == regex_repetition(p, a.next)
         IN IF ~a.ok \/ ~r.ok THEN [ok |-> FALSE, items |-> <<>>]
            ELSE regex_parse(p, r.next,
                    Append(acc, [kind |-> "set", set |-> a.set,
                                 min |-> r.min, max |-> r.max]))

Regex_new(p) == regex_parse(p, 1, <<>>)

RECURSIVE regex_match_from(_, _, _, _)
\* whether items k.. match s from index pos on
regex_match_from(items, k, s, pos) ==
    IF k > Len(items) THEN TRUE
    ELSE LET it == items[k] IN
         IF it.kind = "start" THEN pos = 1 /\ regex_match_from(items, k + 1, s, pos)
         ELSE IF it.kind = "end"
         THEN pos = Len(s) + 1 /\ regex_match_from(items, k + 1, s, pos)
         ELSE \E n \in it.min..it.max :
                /\ pos + n - 1 <= Len(s)
                /\ \A q \in pos..(pos + n - 1) : s[q] \in it.set
                /\ regex_match_from(items, k + 1, s, pos + n)

\* Regex::is_match: an unanchored search
Regex_is_match(regex, s) ==
    \E pos \in 1..(Len(s) + 1) : regex_match_from(regex.items, 1, s, pos)

----------------------------------------------------------------------------
\* prep.replace_all(pattern, "$1/"), prep being the regex of schema.rs line 308

RECURSIVE backslash_run(_, _)
\* the number of consecutive backslashes of p from index i on
backslash_run(p, i) ==
    IF At(p, i) = Backslash THEN 1 + backslash_run(p, i + 1) ELSE 0

\* (\\\\)*\\/ at index i: the index of the `/` that ends the match, or 0.
\* Pairs of backslashes, then one backslash, then `/`: the run is odd.
prep_tail(p, i) ==
    LET r == backslash_run(p, i) IN
    IF r % 2 = 1 /\ At(p, i + r) = Slash THEN i + r ELSE 0

\* a match of prep that starts at index i: the index of its last character, or 0
prep_match_at(p, i) ==
    IF i = 1 /\ prep_tail(p, 1) # 0 THEN prep_tail(p, 1)
    ELSE IF At(p, i) # Backslash /\ At(p, i) # "" THEN prep_tail(p, i + 1)
    ELSE 0

RECURSIVE prep_replace_from(_, _)
\* the successive non-overlapping matches from index i on, each replaced by
\* its group 1 (the match without its last two characters) and a `/`
prep_replace_from(p, i) ==
    IF i > Len(p) THEN <<>>
    ELSE LET e == prep_match_at(p, i) IN
         IF e # 0
         THEN SubSeq(p, i, e - 2) \o <<Slash>> \o prep_replace_from(p, e + 1)
         ELSE <<p[i]>> \o prep_replace_from(p, i + 1)

prep_replace_all(p) == prep_replace_from(p, 1)

----------------------------------------------------------------------------
(* The keyword groups of validate_schema_object, in the order of the source *)

RECURSIVE validate_schema(_, _, _, _)

RECURSIVE JoinNames(_, _)
\* the Debug text of a list of instance types, without its brackets
JoinNames(v, i) ==
    IF i > Len(v) THEN <<>>
    ELSE IF i = Len(v) THEN <<v[i]>>
    ELSE <<v[i], ", ">> \o JoinNames(v, i + 1)

is_valid_instance_type(instance_type, v) ==
    CASE instance_type = "Null" -> v.t = "null"
      [] instance_type = "Boolean" -> v.t = "bool"
      [] instance_type = "Object" -> v.t = "obj"
      [] instance_type = "Array" -> v.t = "arr"
      [] instance_type = "Number" -> v.t = "num"
      [] instance_type = "String" -> v.t = "str"
      [] instance_type = "Integer" -> v.t = "num" /\ ~v.f

check_instance_type(path, instance_type, v) ==
    IF ~IsSome(instance_type) THEN Ok(<<>>)
    ELSE LET it == Unwrap(instance_type) IN
         IF it.single
         THEN IF is_valid_instance_type(it.v[1], v) THEN Ok(<<>>)
              ELSE InvalidValue(path, <<"value is not of type ", it.v[1]>>, <<>>)
         ELSE IF \E i \in 1..Len(it.v) : is_valid_instance_type(it.v[i], v)
              THEN Ok(<<>>)
              ELSE InvalidValue(path,
                      <<"value is not any of [">> \o JoinNames(it.v, 1) \o <<"]">>,
                      <<>>)

\* check_const_enum without its first arm: `const` decides when both are set
check_const_enum_const_wins(path, const_value, enum_values, v) ==
    IF IsSome(const_value)
    THEN IF ValEq(Unwrap(const_value), v) THEN Ok(<<>>)
         ELSE InvalidValue(path \o <<".const">>,
                 <<"mismatch with expected const value">>, <<>>)
    ELSE IF IsSome(enum_values)
    THEN IF \E i \in 1..Len(Unwrap(enum_values)) : ValEq(Unwrap(enum_values)[i], v)
         THEN Ok(<<>>)
         ELSE InvalidValue(path \o <<".enum">>,
                 <<"not a valid enumerated value">>, <<>>)
    ELSE Ok(<<>>)

check_const_enum(path, const_value, enum_values, v) ==
    IF IsSome(const_value) /\ IsSome(enum_values)
    THEN InvalidSchema(path, <<"both 'const' and 'enum' present">>, <<>>)
    ELSE IF IsSome(const_value)
    THEN IF ValEq(Unwrap(const_value), v) THEN Ok(<<>>)
         ELSE InvalidValue(path \o <<".const">>,
                 <<"mismatch with expected const value">>, <<>>)
    ELSE IF IsSome(enum_values)
    THEN IF \E i \in 1..Len(Unwrap(enum_values)) : ValEq(Unwrap(enum_values)[i], v)
         THEN Ok(<<>>)
         ELSE InvalidValue(path \o <<".enum">>,
                 <<"not a valid enumerated value">>, <<>>)
    ELSE Ok(<<>>)

RECURSIVE ConcatCalls(_, _)
\* the calls of the results rs[i..], in order
ConcatCalls(rs, i) ==
    IF i > Len(rs) THEN <<>> ELSE rs[i].calls \o ConcatCalls(rs, i + 1)

\* whether evaluation stops after the results rs: after a panic, and after
\* the first Ok when stop_on_ok (Iterator::any)
Stops(rs, stop_on_ok) ==
    Len(rs) > 0 /\ (panicked(rs[Len(rs)]) \/ (stop_on_ok /\ is_ok(rs[Len(rs)])))

RECURSIVE eval_seq(_, _, _, _, _, _, _)
\* the results rs of validate_schema at sub_path on set[1..i-1], followed by
\* those on set[i..] in order, until evaluation stops
eval_seq(sub_path, set, defs, v, i, stop_on_ok, rs) ==
    IF i > Len(set) \/ Stops(rs, stop_on_ok) THEN rs
    ELSE eval_seq(sub_path, set, defs, v, i + 1, stop_on_ok,
                  Append(rs, validate_schema(sub_path, set[i], defs, v)))

LastPanicked(rs) == Len(rs) > 0 /\ panicked(rs[Len(rs)])

\* all_of_result counting no further than the first failure
all_of_result_first_failure(path, n, rs) ==
    IF LastPanicked(rs) THEN Panic(rs[Len(rs)].details, ConcatCalls(rs, 1))
    ELSE IF \E i \in 1..Len(rs) : is_err(rs[i])
    THEN InvalidValue(path \o <<".allOf">>,
            <<"value did not validate for ", "1", " of ",
              ToString(n), " 'allOf' schemas">>,
            ConcatCalls(rs, 1))
    ELSE Ok(ConcatCalls(rs, 1))

\* lines 110-127, rs being the results of the closure of `filter`
all_of_result(path, n, rs) ==
    LET bad_count == Cardinality({i \in 1..Len(rs) : is_err(rs[i])})
    IN IF LastPanicked(rs) THEN Panic(rs[Len(rs)].details, ConcatCalls(rs, 1))
       ELSE IF bad_count # 0
       THEN InvalidValue(path \o <<".allOf">>,
               <<"value did not validate for ", ToString(bad_count), " of ",
                 ToString(n), " 'allOf' schemas">>,
               ConcatCalls(rs, 1))
       ELSE Ok(ConcatCalls(rs, 1))

check_all_of(path, set, defs, v) ==
    all_of_result(path, Len(set),
                  eval_seq(path \o <<".allOf">>, set, defs, v, 1, FALSE, <<>>))

\* lines 131-139, rs being the results of the closure of `any`
any_of_result(path, rs) ==
    IF LastPanicked(rs) THEN Panic(rs[Len(rs)].details, ConcatCalls(rs, 1))
    ELSE IF ~(Len(rs) > 0 /\ is_ok(rs[Len(rs)]))
    THEN InvalidValue(path \o <<".anyOf">>,
            <<"value did not validate for any 'anyOf' schemas">>,
            ConcatCalls(rs, 1))
    ELSE Ok(ConcatCalls(rs, 1))

check_any_of(path, set, defs, v) ==
    any_of_result(path,
                  eval_seq(path \o <<".anyOf">>, set, defs, v, 1, TRUE, <<>>))

\* one_of_result with `good_count == 0` for `good_count != 1`
one_of_result_at_least_one(path, n, rs) ==
    LET good_count == Cardinality({i \in 1..Len(rs) : is_ok(rs[i])})
    IN IF LastPanicked(rs) THEN Panic(rs[Len(rs)].details, ConcatCalls(rs, 1))
       ELSE IF good_count = 0
       THEN InvalidValue(path \o <<".oneOf">>,
               <<"value validated against ", ToString(good_count), " of ",
                 ToString(n), " 'oneOf' schemas (rather than 1)">>,
               ConcatCalls(rs, 1))
       ELSE Ok(ConcatCalls(rs, 1))

\* lines 143-160, rs being the results of the closure of `filter`
one_of_result(path, n, rs) ==
    LET good_count == Cardinality({i \in 1..Len(rs) : is_ok(rs[i])})
    IN IF LastPanicked(rs) THEN Panic(rs[Len(rs)].details, ConcatCalls(rs, 1))
       ELSE IF good_count # 1
       THEN InvalidValue(path \o <<".oneOf">>,
               <<"value validated against ", ToString(good_count), " of ",
                 ToString(n), " 'oneOf' schemas (rather than 1)">>,
               ConcatCalls(rs, 1))
       ELSE Ok(ConcatCalls(rs, 1))

check_one_of(path, set, defs, v) ==
    one_of_result(path, Len(set),
                  eval_seq(path \o <<".oneOf">>, set, defs, v, 1, FALSE, <<>>))

\* lines 164-170, r being the result on the not schema
not_result(path, r) ==
    IF panicked(r) THEN r
    ELSE IF is_ok(r)
    THEN InvalidValue(path \o <<".not">>,
            <<"value validated 'not' schemas (but must not)">>, r.calls)
    ELSE Ok(r.calls)

check_not(path, not_schema, defs, v) ==
    not_result(path, validate_schema(path \o <<".not">>, not_schema, defs, v))

\* match_if_then_else whose `else` arm does not look at the value of `if`
\* once the `then` arm has not matched
match_if_then_else_else_unguarded(path, c, if_schema, then_schema, else_schema, defs, v) ==
    LET has_if == IsSome(if_schema)
        if_schema_value == is_ok(c)
    IN IF panicked(c) THEN c
       ELSE IF has_if /\ ~IsSome(then_schema) /\ ~IsSome(else_schema)
       THEN InvalidSchema(path,
               <<"an 'if' schema must have a 'then' or 'else'">>, c.calls)
       ELSE IF has_if /\ if_schema_value /\ IsSome(then_schema)
       THEN After(c.calls,
               validate_schema(path \o <<".then">>, Unwrap(then_schema), defs, v))
       ELSE IF has_if /\ IsSome(else_schema)
       THEN After(c.calls,
               validate_schema(path \o <<".else">>, Unwrap(else_schema), defs, v))
       ELSE IF ~has_if /\ (IsSome(then_schema) \/ IsSome(else_schema))
       THEN InvalidSchema(path,
               <<"cannot have 'then' or 'else' schemas without an 'if' schema">>,
               <<>>)
       ELSE Ok(c.calls)

\* the match of lines 177-203, c being the result on the if schema (Ok
\* without calls when there is none)
match_if_then_else(path, c, if_schema, then_schema, else_schema, defs, v) ==
    LET has_if == IsSome(if_schema)
        if_schema_value == is_ok(c)
    IN IF panicked(c) THEN c
       ELSE IF has_if /\ ~IsSome(then_schema) /\ ~IsSome(else_schema)
       THEN InvalidSchema(path,
               <<"an 'if' schema must have a 'then' or 'else'">>, c.calls)
       ELSE IF has_if /\ if_schema_value /\ IsSome(then_schema)
       THEN After(c.calls,
               validate_schema(path \o <<".then">>, Unwrap(then_schema), defs, v))
       ELSE IF has_if /\ ~if_schema_value /\ IsSome(else_schema)
       THEN After(c.calls,
               validate_schema(path \o <<".else">>, Unwrap(else_schema), defs, v))
       ELSE IF ~has_if /\ IsSome(then_schema) /\ ~IsSome(else_schema)
       THEN InvalidSchema(path,
               <<"cannot have a 'then' schema without an 'if' schema">>, <<>>)
       ELSE IF ~has_if /\ ~IsSome(then_schema) /\ IsSome(else_schema)
       THEN InvalidSchema(path,
               <<"cannot have an 'else' schema without an 'if' schema">>, <<>>)
       ELSE IF ~has_if /\ IsSome(then_schema) /\ IsSome(else_schema)
       THEN InvalidSchema(path,
               <<"cannot have 'then' and 'else' schemas without an 'if' schema">>,
               <<>>)
       ELSE Ok(c.calls)

check_if_then_else(path, if_schema, then_schema, else_schema, defs, v) ==
    match_if_then_else(path,
        IF IsSome(if_schema)
        THEN validate_schema(path \o <<".if">>, Unwrap(if_schema), defs, v)
        ELSE Ok(<<>>),
        if_schema, then_schema, else_schema, defs, v)

\* r1 if it is an error or a panic, else r2 after it (the early returns and `?`)
Then(r1, r2) == IF is_ok(r1) THEN After(r1.calls, r2) ELSE r1

check_subschemas(path, subschemas, defs, v) ==
    IF ~IsSome(subschemas) THEN Ok(<<>>)
    ELSE LET sub == Unwrap(subschemas) IN
         Then(IF IsSome(sub.all_of)
              THEN check_all_of(path, Unwrap(sub.all_of), defs, v) ELSE Ok(<<>>),
         Then(IF IsSome(sub.any_of)
              THEN check_any_of(path, Unwrap(sub.any_of), defs, v) ELSE Ok(<<>>),
         Then(IF IsSome(sub.one_of)
              THEN check_one_of(path, Unwrap(sub.one_of), defs, v) ELSE Ok(<<>>),
         Then(IF IsSome(sub.not)
              THEN check_not(path, Unwrap(sub.not), defs, v) ELSE Ok(<<>>),
              check_if_then_else(path, sub.if_schema, sub.then_schema,
                                 sub.else_schema, defs, v)))))

----------------------------------------------------------------------------
(* number *)

\* Value::as_f64 of a number (the model's numbers are exact as f64)
as_f64(v) == v.n

\* div - div.round() > f64::EPSILON for div = n / multiple_of, in integers:
\* f64::round rounds half away from zero; n / 0.0 is infinite or NaN and
\* the comparison is then false
not_multiple_of(n, multiple_of) ==
    IF multiple_of = 0 THEN FALSE
    ELSE LET a == IF multiple_of < 0 THEN -n ELSE n
             b == IF multiple_of < 0 THEN -multiple_of ELSE multiple_of
             rem == a % b
         IN (rem > 0 /\ 2 * rem < b) \/ (2 * rem = b /\ a < 0)

\* above_maximum with the inclusive reading of `maximum`
above_maximum_inclusive(n, maximum) == n > maximum

above_maximum(n, maximum) == n >= maximum

above_exclusive_maximum(n, exclusive_maximum) == n > exclusive_maximum

below_minimum(n, minimum) == n <= minimum

below_exclusive_minimum(n, exclusive_minimum) == n < exclusive_minimum

check_number(path, number, v) ==
    IF ~IsSome(number) THEN Ok(<<>>)
    ELSE IF v.t # "num" THEN InvalidValue(path, <<"expected a number">>, <<>>)
    ELSE LET num == Unwrap(number)
             n == as_f64(v)
         IN IF IsSome(num.multiple_of) /\ not_multiple_of(n, Unwrap(num.multiple_of))
            THEN InvalidValue(path,
                    <<"the value ", ToString(n), " is not a multiple of ",
                      ToString(Unwrap(num.multiple_of))>>, <<>>)
            ELSE IF IsSome(num.maximum) /\ above_maximum(n, Unwrap(num.maximum))
            THEN InvalidValue(path,
                    <<"the value ", ToString(n), " >= the maximum ",
                      ToString(Unwrap(num.maximum))>>, <<>>)
            ELSE IF /\ IsSome(num.exclusive_maximum)
                    /\ above_exclusive_maximum(n, Unwrap(num.exclusive_maximum))
            THEN InvalidValue(path,
                    <<"the value ", ToString(n), " > the exclusive maximum ",
                      ToString(Unwrap(num.exclusive_maximum))>>, <<>>)
            ELSE IF IsSome(num.minimum) /\ below_minimum(n, Unwrap(num.minimum))
            THEN InvalidValue(path,
                    <<"the value ", ToString(n), " <= the minimum ",
                      ToString(Unwrap(num.minimum))>>, <<>>)
            ELSE IF /\ IsSome(num.exclusive_minimum)
                    /\ below_exclusive_minimum(n, Unwrap(num.exclusive_minimum))
            THEN InvalidValue(path,
                    <<"the value ", ToString(n), " < the exclusive minimum ",
                      ToString(Unwrap(num.exclusive_minimum))>>, <<>>)
            ELSE Ok(<<>>)

----------------------------------------------------------------------------
(* string *)

\* the pattern handed to Regex::new
prepared_pattern(pattern) == prep_replace_all(pattern)

\* the string s against the prepared pattern
match_pattern(path, prepared, s) ==
    LET regex == Regex_new(prepared)
    IN IF ~regex.ok
       THEN InvalidSchema(path, prepared \o <<" is not a valid regex">>, <<>>)
       ELSE IF ~Regex_is_match(regex, s)
       THEN InvalidValue(path,
               s \o <<" does not match tha pattern ">> \o prepared, <<>>)
       ELSE Ok(<<>>)

check_pattern(path, pattern, s) ==
    match_pattern(path, prepared_pattern(pattern), s)

check_string(path, string, v) ==
    IF ~IsSome(string) THEN Ok(<<>>)
    ELSE IF v.t # "str" THEN InvalidValue(path, <<"expected a string">>, <<>>)
    ELSE LET str == Unwrap(string)
             s == v.s
         IN IF IsSome(str.max_length) /\ Len(s) > Unwrap(str.max_length)
            THEN InvalidValue(path,
                    <<"The string is longer than ", ToString(Unwrap(str.max_length)),
                      " characters">>, <<>>)
            ELSE IF IsSome(str.min_length) /\ Len(s) < Unwrap(str.min_length)
            THEN InvalidValue(path,
                    <<"The string is shorter than ", ToString(Unwrap(str.min_length)),
                      " characters">>, <<>>)
            ELSE IF IsSome(str.pattern)
            THEN check_pattern(path, Unwrap(str.pattern), s)
            ELSE Ok(<<>>)

----------------------------------------------------------------------------
(* array and object: the element and property loops run a list of jobs,    *)
(* each one validate_schema call, or the panic of Regex::new(pat).unwrap() *)

Job(path, schema, v) == [kind |-> "validate", path |-> path, schema |-> schema, v |-> v]

PanicJob == [kind |-> "panic"]

RECURSIVE run_jobs(_, _, _)
\* the jobs k.. in order, each ended by `?`
run_jobs(jobs, defs, k) ==
    IF k > Len(jobs) THEN Ok(<<>>)
    ELSE IF jobs[k].kind = "panic"
    THEN Panic(<<"called 'Result::unwrap()' on an 'Err' value">>, <<>>)
    ELSE Then(validate_schema(jobs[k].path, jobs[k].schema, defs, jobs[k].v),
              run_jobs(jobs, defs, k + 1))

item_path(path, i) == path \o <<"[", ToString(i), "]">>

RECURSIVE unique_scan(_, _, _)
\* the loops of lines 367-384 from (i, j) on, indices from 0: the first pair
\* of distinct indices holding equal items, or <<>>
unique_scan(arr, i, j) ==
    IF i >= Len(arr) THEN <<>>
    ELSE IF j >= Len(arr) THEN unique_scan(arr, i + 1, 0)
    ELSE IF i # j /\ ValEq(arr[i + 1], arr[j + 1]) THEN <<i, j>>
    ELSE unique_scan(arr, i, j + 1)

\* check_unique_items with the scan run whenever uniqueItems is set
check_unique_items_when_set(path, unique_items, arr) ==
    IF IsSome(unique_items) /\ unique_scan(arr, 0, 0) # <<>>
    THEN LET d == unique_scan(arr, 0, 0) IN
         InvalidValue(path,
            <<"items should be unique, but items at [", ToString(d[1]),
              "] and [", ToString(d[2]), "] are the same">>, <<>>)
    ELSE Ok(<<>>)

check_unique_items(path, unique_items, arr) ==
    IF unique_items = Some(TRUE) /\ unique_scan(arr, 0, 0) # <<>>
    THEN LET d == unique_scan(arr, 0, 0) IN
         InvalidValue(path,
            <<"items should be unique, but items at [", ToString(d[1]),
              "] and [", ToString(d[2]), "] are the same">>, <<>>)
    ELSE Ok(<<>>)

Min(a, b) == IF a <= b THEN a ELSE b

\* item_jobs with additional_items applied from the first item on
item_jobs_skip_nothing(path, items, additional_items, arr) ==
    IF ~IsSome(items) THEN <<>>
    ELSE LET it == Unwrap(items) IN
         IF it.single
         THEN [k \in 1..Len(arr) |-> Job(item_path(path, k - 1), it.v[1], arr[k])]
         ELSE [k \in 1..Min(Len(arr), Len(it.v)) |->
                  Job(item_path(path, k - 1), it.v[k], arr[k])]
              \o (IF IsSome(additional_items)
                  THEN [k \in 1..Len(arr) |->
                           Job(item_path(path, k - 1), Unwrap(additional_items), arr[k])]
                  ELSE <<>>)

\* the validate_schema calls of `match items`, in order
item_jobs(path, items, additional_items, arr) ==
    IF ~IsSome(items) THEN <<>>
    ELSE LET it == Unwrap(items) IN
         IF it.single
         THEN [k \in 1..Len(arr) |-> Job(item_path(path, k - 1), it.v[1], arr[k])]
         ELSE [k \in 1..Min(Len(arr), Len(it.v)) |->
                  Job(item_path(path, k - 1), it.v[k], arr[k])]
              \o (IF IsSome(additional_items) /\ Len(arr) > Len(it.v)
                  THEN [k \in 1..(Len(arr) - Len(it.v)) |->
                           Job(item_path(path, Len(it.v) + k - 1),
                               Unwrap(additional_items), arr[Len(it.v) + k])]
                  ELSE <<>>)

RECURSIVE contains_seq(_, _, _, _, _, _)
\* the results rs of the contains schema on arr[1..k-1], followed by those on
\* arr[k..], up to the first Ok or panic
contains_seq(path, contains_schema, defs, arr, k, rs) ==
    IF k > Len(arr) \/ Stops(rs, TRUE) THEN rs
    ELSE contains_seq(path, contains_schema, defs, arr, k + 1,
            Append(rs, validate_schema(item_path(path, k - 1), contains_schema,
                                       defs, arr[k])))

\* lines 416-425, rs being the results of the closure of `any`
contains_result(path, rs) ==
    IF LastPanicked(rs) THEN Panic(rs[Len(rs)].details, ConcatCalls(rs, 1))
    ELSE IF ~(Len(rs) > 0 /\ is_ok(rs[Len(rs)]))
    THEN InvalidValue(path \o <<".contains">>,
            <<"array does not contain the required item">>, ConcatCalls(rs, 1))
    ELSE Ok(ConcatCalls(rs, 1))

check_contains(path, contains, defs, v) ==
    IF ~IsSome(contains) THEN Ok(<<>>)
    ELSE contains_result(path,
            contains_seq(path, Unwrap(contains), defs, v.a, 1, <<>>))

check_array(path, array, defs, v) ==
    IF ~IsSome(array) THEN Ok(<<>>)
    ELSE IF v.t # "arr" THEN InvalidValue(path, <<"expected an array">>, <<>>)
    ELSE LET a == Unwrap(array)
             arr == v.a
             arr_count == Len(arr)
         IN IF IsSome(a.max_items) /\ arr_count > Unwrap(a.max_items)
            THEN InvalidValue(path,
                    <<ToString(arr_count), " items is greater that the maximum of ",
                      ToString(Unwrap(a.max_items))>>, <<>>)
            ELSE IF IsSome(a.min_items) /\ arr_count < Unwrap(a.min_items)
            THEN InvalidValue(path,
                    <<ToString(arr_count), " items is less that the minimum of ",
                      ToString(Unwrap(a.min_items))>>, <<>>)
            ELSE Then(check_unique_items(path, a.unique_items, arr),
                 Then(run_jobs(item_jobs(path, a.items, a.additional_items, arr),
                               defs, 1),
                      check_contains(path, a.contains, defs, v)))

\* Map::get / Map::contains_key on a sequence of entries
HasKey(m, k) == \E i \in 1..Len(m) : m[i].k = k

Get(m, k) == m[CHOOSE i \in 1..Len(m) : m[i].k = k].v

RECURSIVE first_missing(_, _, _)
\* the first name of required[i..] that is no key of map, or <<>>
first_missing(required, map, i) ==
    IF i > Len(required) THEN <<>>
    ELSE IF ~HasKey(map, required[i]) THEN <<required[i]>>
    ELSE first_missing(required, map, i + 1)

\* whether Regex::new(pat).unwrap().is_match(prop_name); pat compiles
pattern_matches(pat, prop_name) == Regex_is_match(Regex_new(pat), prop_name)

RECURSIVE pattern_jobs(_, _, _, _, _)
\* the loop over pattern_properties[i..] for one property
pattern_jobs(prop_path, pattern_properties, prop_name, prop_value, i) ==
    IF i > Len(pattern_properties) THEN <<>>
    ELSE IF ~Regex_new(pattern_properties[i].k).ok THEN <<PanicJob>>
    ELSE (IF pattern_matches(pattern_properties[i].k, prop_name)
          THEN <<Job(prop_path, pattern_properties[i].v, prop_value)>>
          ELSE <<>>)
         \o pattern_jobs(prop_path, pattern_properties, prop_name, prop_value, i + 1)

\* seen_property with `seen` set by the properties table alone
seen_property_named_only(o, prop_name) == HasKey(o.properties, prop_name)

\* whether the property is `seen` once the loop over pattern_properties is over
seen_property(o, prop_name) ==
    \/ HasKey(o.properties, prop_name)
    \/ \E i \in 1..Len(o.pattern_properties) :
          pattern_matches(o.pattern_properties[i].k, prop_name)

\* the body of the loop over the value's properties, for one property
property_jobs(path, o, prop_name, prop_value) ==
    LET prop_path == path \o <<".">> \o prop_name
        pats == pattern_jobs(prop_path, o.pattern_properties, prop_name, prop_value, 1)
    IN (IF HasKey(o.properties, prop_name)
        THEN <<Job(prop_path, Get(o.properties, prop_name), prop_value)>>
        ELSE <<>>)
       \o pats
       \o (IF Len(pats) > 0 /\ pats[Len(pats)].kind = "panic" THEN <<>>
           ELSE (IF ~seen_property(o, prop_name) /\ IsSome(o.additional_properties)
                 THEN <<Job(prop_path, Unwrap(o.additional_properties), prop_value)>>
                 ELSE <<>>)
                \o (IF IsSome(o.property_names)
                    THEN <<Job(prop_path, Unwrap(o.property_names), VStr(prop_name))>>
                    ELSE <<>>))

RECURSIVE object_jobs(_, _, _, _)
object_jobs(path, o, map, i) ==
    IF i > Len(map) THEN <<>>
    ELSE property_jobs(path, o, map[i].k, map[i].v) \o object_jobs(path, o, map, i + 1)

check_object(path, object, defs, v) ==
    IF ~IsSome(object) THEN Ok(<<>>)
    ELSE IF v.t # "obj" THEN InvalidValue(path, <<"expected an object">>, <<>>)
    ELSE LET o == Unwrap(object)
             map == v.m
             map_count == Len(map)
         IN IF IsSome(o.max_properties) /\ map_count > Unwrap(o.max_properties)
            THEN InvalidValue(path,
                    <<ToString(map_count), " properties is greater that the maximum of ",
                      ToString(Unwrap(o.max_properties))>>, <<>>)
            ELSE IF IsSome(o.min_properties) /\ map_count < Unwrap(o.min_properties)
            THEN InvalidValue(path,
                    <<ToString(map_count), " properties is less that the minimum of ",
                      ToString(Unwrap(o.min_properties))>>, <<>>)
            ELSE IF first_missing(o.required, map, 1) # <<>>
            THEN InvalidValue(path,
                    <<"the property ">> \o first_missing(o.required, map, 1)[1]
                    \o <<" is required but absent">>, <<>>)
            ELSE run_jobs(object_jobs(path, o, map, 1), defs, 1)

----------------------------------------------------------------------------
(* reference *)

RECURSIVE rfind(_, _, _)
\* str::rfind: the last index (from 1) of c in s[1..i], or 0
rfind(s, c, i) ==
    IF i = 0 THEN 0 ELSE IF s[i] = c THEN i ELSE rfind(s, c, i - 1)

RECURSIVE find(_, _, _)
\* str::find: the first index (from 1) of c in s[i..], or 0
find(s, c, i) ==
    IF i > Len(s) THEN 0 ELSE IF s[i] = c THEN i ELSE find(s, c, i + 1)

\* resolve_reference with the name taken after the first `/`
resolve_reference_first_slash(path, reference, defs) ==
    LET idx == find(reference, Slash, 1)
        ref_name == SubSeq(reference, idx + 1, Len(reference))
        err == InvalidSchema(path, <<"invalid reference: ">> \o reference, <<>>)
    IN IF idx = 0 THEN [ok |-> FALSE, err |-> err, schema |-> SchemaBool(FALSE)]
       ELSE IF ~HasKey(defs, ref_name)
       THEN [ok |-> FALSE, err |-> err, schema |-> SchemaBool(FALSE)]
       ELSE [ok |-> TRUE, err |-> err, schema |-> Get(defs, ref_name)]

\* lines 514-525: the looked-up schema, or the schema error
resolve_reference(path, reference, defs) ==
    LET idx == rfind(reference, Slash, Len(reference))
        ref_name == SubSeq(reference, idx + 1, Len(reference))
        err == InvalidSchema(path, <<"invalid reference: ">> \o reference, <<>>)
    IN IF idx = 0 THEN [ok |-> FALSE, err |-> err, schema |-> SchemaBool(FALSE)]
       ELSE IF ~HasKey(defs, ref_name)
       THEN [ok |-> FALSE, err |-> err, schema |-> SchemaBool(FALSE)]
       ELSE [ok |-> TRUE, err |-> err, schema |-> Get(defs, ref_name)]

check_reference(path, reference, defs, v) ==
    IF ~IsSome(reference) THEN Ok(<<>>)
    ELSE LET res == resolve_reference(path, Unwrap(reference), defs)
         IN IF ~res.ok THEN res.err
            ELSE validate_schema(Unwrap(reference), res.schema, defs, v)

----------------------------------------------------------------------------
(* validate_schema_object and validate_schema *)

validate_schema_object(path, schema, defs, v) ==
    Then(check_instance_type(path, schema.instance_type, v),
    Then(check_const_enum(path, schema.const_value, schema.enum_values, v),
    Then(check_subschemas(path, schema.subschemas, defs, v),
    Then(check_number(path, schema.number, v),
    Then(check_string(path, schema.string, v),
    Then(check_array(path, schema.array, defs, v),
    Then(check_object(path, schema.object, defs, v),
         check_reference(path, schema.reference, defs, v))))))))

\* the result for Schema::Bool(b)
validate_bool(path, b) ==
    IF b THEN Ok(<<>>)
    ELSE InvalidValue(path, <<"trying to match against the empty set schema">>, <<>>)

\* the entry of the log for one validate_schema call: its path, schema and
\* value, and the kind of its result
Call(path, schema, v, kind) ==
    [path |-> path, schema |-> schema, v |-> v, kind |-> kind]

\* r with the entry of its own call put in front of its calls
Logged(path, schema, v, r) == After(<<Call(path, schema, v, r.kind)>>, r)

validate_schema(path, schema, defs, v) ==
    Logged(path, schema, v,
           IF schema.kind = "Bool" THEN validate_bool(path, schema.b)
           ELSE validate_schema_object(path, schema, defs, v))

----------------------------------------------------------------------------
(* The state machine: validate (lib.rs) runs validate_schema_object on the *)
(* root schema at path "$"; every keyword group is one step of the top     *)
(* frame, and a resolved reference opens a frame on the looked-up schema.  *)

Frame(path, schema, call) == [path |-> path, schema |-> schema, call |-> call]

Top == stack[Len(stack)]

Root == stack[1]

\* the subschemas group of the top frame (none: nothing set)
TopSub ==
    IF IsSome(Top.schema.subschemas) THEN Unwrap(Top.schema.subschemas)
    ELSE DefaultSubschemas

Pending == [kind |-> "Pending", path |-> <<>>, details |-> <<>>]

Outcome(r) == [kind |-> r.kind, path |-> r.path, details |-> r.details]

\* the state validate starts in, for a root schema, definitions and a value
Start(schema, defs, v) ==
    /\ definitions = defs
    /\ value = v
    /\ stack = <<Frame(<<"$">>, schema, 0)>>
    /\ pc = "instance_type"
    /\ result = Pending
    /\ calls = <<>>

\* Step with the later groups evaluated after an error
Step_keep_going(r, next) ==
    /\ calls' = calls \o r.calls
    /\ pc' = next
    /\ result' = IF is_ok(r) THEN result ELSE Outcome(r)
    /\ UNCHANGED <<definitions, value, stack>>

\* a keyword group ended with r: go on with the next group, or return r
Step(r, next) ==
    /\ calls' = calls \o r.calls
    /\ IF is_ok(r)
       THEN pc' = next /\ result' = result
       ELSE pc' = "return" /\ result' = Outcome(r)
    /\ UNCHANGED <<definitions, value, stack>>

CheckInstanceType ==
    /\ pc = "instance_type"
    /\ Step(check_instance_type(Top.path, Top.schema.instance_type, value),
            "const_enum")

CheckConstEnum ==
    /\ pc = "const_enum"
    /\ Step(check_const_enum(Top.path, Top.schema.const_value,
                             Top.schema.enum_values, value), "all_of")

CheckAllOf ==
    /\ pc = "all_of"
    /\ Step(IF IsSome(TopSub.all_of)
            THEN check_all_of(Top.path, Unwrap(TopSub.all_of), definitions, value)
            ELSE Ok(<<>>), "any_of")

CheckAnyOf ==
    /\ pc = "any_of"
    /\ Step(IF IsSome(TopSub.any_of)
            THEN check_any_of(Top.path, Unwrap(TopSub.any_of), definitions, value)
            ELSE Ok(<<>>), "one_of")

CheckOneOf ==
    /\ pc = "one_of"
    /\ Step(IF IsSome(TopSub.one_of)
            THEN check_one_of(Top.path, Unwrap(TopSub.one_of), definitions, value)
            ELSE Ok(<<>>), "not")

CheckNot ==
    /\ pc = "not"
    /\ Step(IF IsSome(TopSub.not)
            THEN check_not(Top.path, Unwrap(TopSub.not), definitions, value)
            ELSE Ok(<<>>), "if")

CheckIfThenElse ==
    /\ pc = "if"
    /\ Step(check_if_then_else(Top.path, TopSub.if_schema, TopSub.then_schema,
                               TopSub.else_schema, definitions, value), "number")

CheckNumber ==
    /\ pc = "number"
    /\ Step(check_number(Top.path, Top.schema.number, value), "string")

CheckString ==
    /\ pc = "string"
    /\ Step(check_string(Top.path, Top.schema.string, value), "array")

CheckArray ==
    /\ pc = "array"
    /\ Step(check_array(Top.path, Top.schema.array, definitions, value), "object")

CheckObject ==
    /\ pc = "object"
    /\ Step(check_object(Top.path, Top.schema.object, definitions, value),
            "reference")

\* lines 513-530 and the match of validate_schema on the looked-up schema
\* CheckReference with a guard: a reference that a frame of the chain is
\* already validating is a schema error
CheckReference_visited_guard ==
    /\ pc = "reference"
    /\ IF ~IsSome(Top.schema.reference)
       THEN /\ pc' = "return"
            /\ result' = Outcome(Ok(<<>>))
            /\ UNCHANGED <<stack, calls>>
       ELSE LET reference == Unwrap(Top.schema.reference)
                res == resolve_reference(Top.path, reference, definitions)
            IN IF ~res.ok \/ \E i \in 1..Len(stack) : stack[i].path = reference
               THEN /\ pc' = "return"
                    /\ result' = Outcome(res.err)
                    /\ UNCHANGED <<stack, calls>>
               ELSE IF res.schema.kind = "Bool"
               THEN /\ pc' = "return"
                    /\ result' = Outcome(validate_bool(reference, res.schema.b))
                    /\ calls' = Append(calls,
                                  Call(reference, res.schema, value,
                                       validate_bool(reference, res.schema.b).kind))
                    /\ UNCHANGED stack
               ELSE /\ Len(stack) < MaxDepth
                    /\ pc' = "instance_type"
                    /\ stack' = Append(stack, Frame(reference, res.schema, Len(calls) + 1))
                    /\ calls' = Append(calls, Call(reference, res.schema, value, "Pending"))
                    /\ UNCHANGED result
    /\ UNCHANGED <<definitions, value>>

CheckReference ==
    /\ pc = "reference"
    /\ IF ~IsSome(Top.schema.reference)
       THEN /\ pc' = "return"
            /\ result' = Outcome(Ok(<<>>))
            /\ UNCHANGED <<stack, calls>>
       ELSE LET reference == Unwrap(Top.schema.reference)
                res == resolve_reference(Top.path, reference, definitions)
            IN IF ~res.ok
               THEN /\ pc' = "return"
                    /\ result' = Outcome(res.err)
                    /\ UNCHANGED <<stack, calls>>
               ELSE IF res.schema.kind = "Bool"
               THEN /\ pc' = "return"
                    /\ result' = Outcome(validate_bool(reference, res.schema.b))
                    /\ calls' = Append(calls,
                                  Call(reference, res.schema, value,
                                       validate_bool(reference, res.schema.b).kind))
                    /\ UNCHANGED stack
               ELSE /\ Len(stack) < MaxDepth
                    /\ pc' = "instance_type"
                    /\ stack' = Append(stack, Frame(reference, res.schema, Len(calls) + 1))
                    /\ calls' = Append(calls, Call(reference, res.schema, value, "Pending"))
                    /\ UNCHANGED result
    /\ UNCHANGED <<definitions, value>>

\* the top frame returns result: to line 527 of the frame below, which
\* returns it in turn, or to validate
Return ==
    /\ pc = "return"
    /\ IF Len(stack) > 1
       THEN /\ stack' = SubSeq(stack, 1, Len(stack) - 1)
            /\ calls' = [calls EXCEPT ![Top.call].kind = result.kind]
            /\ pc' = "return"
       ELSE /\ pc' = "done"
            /\ UNCHANGED <<stack, calls>>
    /\ UNCHANGED <<definitions, value, result>>

Next ==
    \/ CheckInstanceType
    \/ CheckConstEnum
    \/ CheckAllOf
    \/ CheckAnyOf
    \/ CheckOneOf
    \/ CheckNot
    \/ CheckIfThenElse
    \/ CheckNumber
    \/ CheckString
    \/ CheckArray
    \/ CheckObject
    \/ CheckReference
    \/ Return

----------------------------------------------------------------------------
(* The inputs the specifications draw *)

\* the sequences over S of length at most n
SeqsUpTo(S, n) == UNION {[1..k -> S] : k \in 0..n}

Opt(S) == {None} \cup {Some(x) : x \in S}

WithSubschemas(sub) == [DefaultObject EXCEPT !.subschemas = Some(sub)]

StrX == <<"x">>

\* "#/definitions/Foo"
RefFoo ==
    <<"#", "/", "d", "e", "f", "i", "n", "i", "t", "i", "o", "n", "s", "/",
      "F", "o", "o">>

\* "#/definitions/Gone", no key of the table
RefGone ==
    <<"#", "/", "d", "e", "f", "i", "n", "i", "t", "i", "o", "n", "s", "/",
      "G", "o", "n", "e">>

TypeString == [DefaultObject EXCEPT !.instance_type = Some(Single("String"))]

TypeNumber == [DefaultObject EXCEPT !.instance_type = Some(Single("Number"))]

ConstOne == [DefaultObject EXCEPT !.const_value = Some(VInt(1))]

\* malformed schemas, one per schema error
ConstAndEnum ==
    [DefaultObject EXCEPT !.const_value = Some(VInt(1)),
                          !.enum_values = Some(<<VInt(1)>>)]

IfAlone ==
    WithSubschemas([DefaultSubschemas EXCEPT !.if_schema = Some(SchemaBool(TRUE))])

ThenAlone ==
    WithSubschemas([DefaultSubschemas EXCEPT !.then_schema = Some(SchemaBool(TRUE))])

Dangling == [DefaultObject EXCEPT !.reference = Some(RefGone)]

InvalidRegex ==
    [DefaultObject EXCEPT !.string = Some([DefaultString EXCEPT !.pattern = Some(<<"[">>)])]

Malformed == {ConstAndEnum, IfAlone, ThenAlone, Dangling, InvalidRegex}

ToFoo == [DefaultObject EXCEPT !.reference = Some(RefFoo)]

\* {Foo: {type: string}}
DefsFoo == <<Entry(<<"F", "o", "o">>, TypeString)>>

\* the sub-schemas of the drawn lists
ListLeaves == {SchemaBool(TRUE), SchemaBool(FALSE), TypeString, ConstOne, ConstAndEnum}

\* the sub-schemas of the drawn not / if / then / else
Leaves == ListLeaves \cup Malformed \cup {TypeNumber, ToFoo}

BranchLeaves == {SchemaBool(TRUE), SchemaBool(FALSE), TypeString, ConstAndEnum}

\* one of allOf / anyOf / oneOf set, with or without a type
ListSchemas ==
    {[WithSubschemas(sub) EXCEPT !.instance_type = t] :
        sub \in UNION {{[DefaultSubschemas EXCEPT !.all_of = Some(set)],
                        [DefaultSubschemas EXCEPT !.any_of = Some(set)],
                        [DefaultSubschemas EXCEPT !.one_of = Some(set)]} :
                       set \in SeqsUpTo(ListLeaves, MaxSubs)},
        t \in {None, Some(Single("String"))}}

\* not set, over a leaf or a leaf inside a combinator
NotSchemas ==
    {WithSubschemas([DefaultSubschemas EXCEPT !.not = Some(n)]) :
        n \in Leaves
              \cup {WithSubschemas([DefaultSubschemas EXCEPT !.not = Some(m)]) :
                       m \in Malformed}
              \cup {WithSubschemas([DefaultSubschemas EXCEPT !.all_of = Some(<<m>>)]) :
                       m \in Malformed}}

\* every combination of if / then / else
IfSchemas ==
    {WithSubschemas([DefaultSubschemas EXCEPT !.if_schema = i, !.then_schema = t,
                                              !.else_schema = e]) :
        i \in Opt(BranchLeaves \cup {ConstOne}), t \in Opt(BranchLeaves),
        e \in Opt(BranchLeaves)}

\* type, const and enum in every combination, before a later group
ConstEnumSchemas ==
    {[later EXCEPT !.instance_type = t, !.const_value = c, !.enum_values = e] :
        t \in {None, Some(Single("String")), Some(Single("Integer")),
               Some(Vec(<<"String", "Null">>))},
        c \in {None, Some(VInt(1)), Some(VStr(StrX))},
        e \in {None, Some(<<>>), Some(<<VInt(1), VStr(StrX)>>)},
        later \in {DefaultObject, Dangling, InvalidRegex, ToFoo,
                   WithSubschemas([DefaultSubschemas EXCEPT
                                      !.not = Some(SchemaBool(FALSE))])}}

Schemas == ListSchemas \cup NotSchemas \cup IfSchemas \cup ConstEnumSchemas

Values == {VInt(1), VNum(1, TRUE), VStr(StrX), VNull}

Init == \E schema \in Schemas, v \in Values : Start(schema, DefsFoo, v)

Spec == Init /\ [][Next]_vars

\* the steps of validate and the recursive operator give the same result
\* and make the same calls
Returned(r) == result = Outcome(r) /\ calls = r.calls

StepsAgree ==
    pc = "done" =>
        Returned(validate_schema_object(Root.path, Root.schema, definitions, value))

----------------------------------------------------------------------------
(* Properties of Spec *)

\* the calls made by the step being taken
NewCalls == (Len(calls) + 1)..Len(calls')

\* the step being taken ends its keyword group without an error
Passes(next) == pc' = next /\ result' = result

\* the step being taken ends its keyword group with the error r, or passes
Gives(r, next) ==
    IF is_ok(r) THEN Passes(next) ELSE pc' = "return" /\ result' = Outcome(r)

Accepts(path, schema) == is_ok(validate_schema(path, schema, definitions, value))

TypeAccepts(instance_type) ==
    \/ ~IsSome(instance_type)
    \/ \E i \in 1..Len(Unwrap(instance_type).v) :
          is_valid_instance_type(Unwrap(instance_type).v[i], value)

HasConstAndEnum(schema) == IsSome(schema.const_value) /\ IsSome(schema.enum_values)

BothPresent == <<"both 'const' and 'enum' present">>

C2_SchemaErrorFatal ==
    (pc = "done" /\ \E j \in 1..Len(calls) : calls[j].kind = "InvalidSchema") =>
        result.kind = "InvalidSchema"

\* the sub-schemas of set that accept the value at sub_path
Accepting(sub_path, set) == {i \in 1..Len(set) : Accepts(sub_path, set[i])}

\* every sub-schema of set is evaluated at sub_path by the step being taken,
\* in the order of the list
AllEvaluated(sub_path, set) ==
    /\ Cardinality({j \in NewCalls : calls'[j].path = sub_path}) = Len(set)
    /\ \A i \in 1..Len(set) : \E j \in NewCalls :
          /\ calls'[j].path = sub_path /\ calls'[j].schema = set[i]
          /\ Cardinality({h \in NewCalls : h < j /\ calls'[h].path = sub_path}) = i - 1

OneOfStep(sub_path, set, k) ==
    /\ AllEvaluated(sub_path, set)
    /\ IF k = 1 THEN Passes("not")
       ELSE /\ pc' = "return"
            /\ result' = [kind |-> "InvalidValue", path |-> sub_path,
                          details |-> <<"value validated against ", ToString(k),
                                        " of ", ToString(Len(set)),
                                        " 'oneOf' schemas (rather than 1)">>]

\* C3: the oneOf check of a node with a list of n sub-schemas of which k
\* accept the value evaluates every sub-schema and passes iff k = 1; for any
\* other k it returns InvalidValue at <path>.oneOf, reporting k and n.
C3_OneOf ==
    [][(pc = "one_of" /\ IsSome(TopSub.one_of)) =>
          OneOfStep(Top.path \o <<".oneOf">>, Unwrap(TopSub.one_of),
                    Cardinality(Accepting(Top.path \o <<".oneOf">>,
                                          Unwrap(TopSub.one_of))))]_vars

C3_Witness ==
    /\ pc = "return"
    /\ IsSome(TopSub.one_of)
    /\ Len(Unwrap(TopSub.one_of)) = 3
    /\ result.path = <<"$", ".oneOf">>
    /\ result.details[2] = "2"

AllOfStep(sub_path, set, m) ==
    /\ AllEvaluated(sub_path, set)
    /\ IF m = 0 THEN Passes("any_of")
       ELSE /\ pc' = "return"
            /\ result' = [kind |-> "InvalidValue", path |-> sub_path,
                          details |-> <<"value did not validate for ", ToString(m),
                                        " of ", ToString(Len(set)),
                                        " 'allOf' schemas">>]

\* C4: the allOf check of a node with a list of n sub-schemas passes iff
\* every sub-schema accepts the value (an empty list passes); when m >= 1 of
\* them fail it returns one InvalidValue at <path>.allOf that reports m and
\* n and nothing about which sub-schemas failed.
C4_AllOf ==
    [][(pc = "all_of" /\ IsSome(TopSub.all_of)) =>
          AllOfStep(Top.path \o <<".allOf">>, Unwrap(TopSub.all_of),
                    Len(Unwrap(TopSub.all_of))
                    - Cardinality(Accepting(Top.path \o <<".allOf">>,
                                            Unwrap(TopSub.all_of))))]_vars

C4_Witness ==
    /\ pc = "return"
    /\ IsSome(TopSub.all_of)
    /\ Len(Unwrap(TopSub.all_of)) = 3
    /\ result.path = <<"$", ".allOf">>
    /\ result.details[2] = "2"

NotCalled(sub_path) == \A j \in NewCalls : calls'[j].path # sub_path

SchemaErrorAt(path) ==
    pc' = "return" /\ result'.kind = "InvalidSchema" /\ result'.path = path

\* the step being taken gives the result of the branch at sub_path, or
\* passes when there is no such branch
GivesBranch(sub_path, branch) ==
    IF IsSome(branch)
    THEN Gives(validate_schema(sub_path, Unwrap(branch), definitions, value), "number")
    ELSE Passes("number")

IfThenElseStep(path, if_schema, then_schema, else_schema) ==
    IF IsSome(if_schema)
    THEN IF ~IsSome(then_schema) /\ ~IsSome(else_schema) THEN SchemaErrorAt(path)
         ELSE IF Accepts(path \o <<".if">>, Unwrap(if_schema))
         THEN GivesBranch(path \o <<".then">>, then_schema)
              /\ NotCalled(path \o <<".else">>)
         ELSE GivesBranch(path \o <<".else">>, else_schema)
              /\ NotCalled(path \o <<".then">>)
    ELSE IF IsSome(then_schema) \/ IsSome(else_schema) THEN SchemaErrorAt(path)
    ELSE Passes("number")

\* C9: in a node with a subschemas group, `if` with neither `then` nor
\* `else`, and `then` or `else` without `if`, give InvalidSchema; otherwise
\* the result is that of `then` when `if` accepts the value and that of
\* `else` when it does not (a pass when that branch is absent), and the
\* other branch is not evaluated.
C9_IfThenElse ==
    [][(pc = "if" /\ IsSome(Top.schema.subschemas)) =>
          IfThenElseStep(Top.path, TopSub.if_schema, TopSub.then_schema,
                         TopSub.else_schema)]_vars

\* `if` accepts, `then` is absent and the malformed `else` is not evaluated
C9_Witness ==
    /\ pc = "number"
    /\ TopSub.if_schema = Some(SchemaBool(TRUE))
    /\ TopSub.then_schema = None
    /\ TopSub.else_schema = Some(ConstAndEnum)

----------------------------------------------------------------------------
(* SpecNumber: a number group with at most two bounds, or with multipleOf *)

Nums == (-MaxNum)..MaxNum

SetBounds(g) ==
    Len(g.maximum) + Len(g.exclusive_maximum) + Len(g.minimum)
    + Len(g.exclusive_minimum)

NumberGroups ==
    {g \in {[DefaultNumber EXCEPT !.maximum = a, !.exclusive_maximum = b,
                                  !.minimum = c, !.exclusive_minimum = d] :
               a \in Opt(Nums), b \in Opt(Nums), c \in Opt(Nums), d \in Opt(Nums)} :
        SetBounds(g) <= 2}
    \cup {[DefaultNumber EXCEPT !.multiple_of = Some(m), !.maximum = a] :
             m \in {-2, 0, 2}, a \in {None, Some(MaxNum)}}

NumberSchemas == {[DefaultObject EXCEPT !.number = Some(g)] : g \in NumberGroups}

NumberValues ==
    {VNum(n, f) : n \in (-MaxNum - 1)..(MaxNum + 1), f \in BOOLEAN} \cup {VStr(StrX)}

InitNumber ==
    \E schema \in NumberSchemas, v \in NumberValues : Start(schema, DefsFoo, v)

SpecNumber == InitNumber /\ [][Next]_vars

\* the bounds of the group g that reject the number n, by the text of their error
RejectingBounds(g, n) ==
    {b \in {" >= the maximum ", " > the exclusive maximum ", " <= the minimum ",
            " < the exclusive minimum "} :
        \/ b = " >= the maximum " /\ IsSome(g.maximum) /\ n >= Unwrap(g.maximum)
        \/ /\ b = " > the exclusive maximum " /\ IsSome(g.exclusive_maximum)
           /\ n > Unwrap(g.exclusive_maximum)
        \/ b = " <= the minimum " /\ IsSome(g.minimum) /\ n <= Unwrap(g.minimum)
        \/ /\ b = " < the exclusive minimum " /\ IsSome(g.exclusive_minimum)
           /\ n < Unwrap(g.exclusive_minimum)}

BoundsStep(path, g, n) ==
    IF RejectingBounds(g, n) = {} THEN Passes("string")
    ELSE /\ pc' = "return"
         /\ result'.kind = "InvalidValue"
         /\ result'.path = path
         /\ result'.details[1] = "the value "
         /\ result'.details[2] = ToString(n)
         /\ result'.details[3] \in RejectingBounds(g, n)

\* C5: on a number n, `maximum = M` rejects exactly the n >= M and
\* `minimum = M` exactly the n <= M (the value M is rejected), while
\* `exclusiveMaximum = M` rejects exactly the n > M and `exclusiveMinimum = M`
\* exactly the n < M (the value M passes); the number group rejects n iff one
\* of its bounds does, with the error of a bound that rejects n.
C5_Bounds ==
    [][(/\ pc = "number" /\ IsSome(Top.schema.number) /\ value.t = "num"
        /\ ~IsSome(Unwrap(Top.schema.number).multiple_of)) =>
          BoundsStep(Top.path, Unwrap(Top.schema.number), value.n)]_vars

\* the value M is rejected by `maximum = M`
C5_Witness ==
    /\ pc = "return"
    /\ IsSome(Top.schema.number)
    /\ Unwrap(Top.schema.number).maximum = Some(1)
    /\ Unwrap(Top.schema.number).exclusive_maximum = Some(1)
    /\ value = VInt(1)
    /\ result.details = <<"the value ", "1", " >= the maximum ", "1">>

\* the value M passes `exclusiveMaximum = M` and `exclusiveMinimum = M`
C5_BoundaryPasses ==
    /\ pc = "string"
    /\ IsSome(Top.schema.number)
    /\ Unwrap(Top.schema.number).exclusive_maximum = Some(1)
    /\ Unwrap(Top.schema.number).exclusive_minimum = Some(1)
    /\ value = VInt(1)

----------------------------------------------------------------------------
(* SpecPattern: a string group with a pattern of backslashes and slashes *)

Chars(w) == [i \in 1..Len(w) |-> w[i]]

\* ^[0-9]{1,2}\/[0-9]{1,2}\/[0-9]{4}$, the pattern of test_slashes
DatePattern ==
    <<"^", "[", "0", "-", "9", "]", "{", "1", ",", "2", "}", "\\", "/",
      "[", "0", "-", "9", "]", "{", "1", ",", "2", "}", "\\", "/",
      "[", "0", "-", "9", "]", "{", "4", "}", "$">>

Patterns == SeqsUpTo({Backslash, Slash, "a"}, MaxPatLen) \cup {DatePattern}

PatternSchemas ==
    {[DefaultObject EXCEPT !.string = Some([DefaultString EXCEPT !.pattern = Some(p)])] :
        p \in Patterns}

\* 9/8/2017
SlashDate == <<"9", "/", "8", "/", "2", "0", "1", "7">>

\* 2017-08-09
DashDate == <<"2", "0", "1", "7", "-", "0", "8", "-", "0", "9">>

PatternValues ==
    {VStr(SlashDate), VStr(DashDate), VStr(<<"/", "/">>), VStr(<<"a", "/", "a">>),
     VStr(<<"\\", "/">>), VInt(1)}

InitPattern ==
    \E schema \in PatternSchemas, v \in PatternValues : Start(schema, DefsFoo, v)

SpecPattern == InitPattern /\ [][Next]_vars

RECURSIVE unescape_from(_, _, _)
\* the pattern p from index i on, run backslashes standing just before index
\* i, with every `\/` that follows an even number of backslashes made a `/`
unescape_from(p, i, run) ==
    IF i > Len(p) THEN <<>>
    ELSE IF p[i] = Backslash /\ At(p, i + 1) = Slash /\ run % 2 = 0
    THEN <<Slash>> \o unescape_from(p, i + 2, 0)
    ELSE <<p[i]>> \o unescape_from(p, i + 1, IF p[i] = Backslash THEN run + 1 ELSE 0)

every_escaped_slash_unescaped(p) == unescape_from(p, 1, 0)

HasPattern ==
    /\ IsSome(Top.schema.string)
    /\ IsSome(Unwrap(Top.schema.string).pattern)
    /\ value.t = "str"

TopPattern == Unwrap(Unwrap(Top.schema.string).pattern)

\* C6: before it is compiled, the pattern has every `\/` that is preceded by
\* an even number of backslashes (zero included) replaced by `/`: the string
\* is matched against the pattern rewritten so.
C6_EveryEscapedSlash ==
    [][(pc = "string" /\ HasPattern) =>
          Gives(match_pattern(Top.path, every_escaped_slash_unescaped(TopPattern),
                              value.s),
                "array")]_vars

\* C6, the part the code keeps: with the pattern
\* ^[0-9]{1,2}\/[0-9]{1,2}\/[0-9]{4}$ the string 9/8/2017 passes the string
\* group and 2017-08-09 is rejected for not matching
\* ^[0-9]{1,2}/[0-9]{1,2}/[0-9]{4}$.
C6_DatePattern ==
    [][(pc = "string" /\ HasPattern /\ TopPattern = DatePattern) =>
          /\ value.s = SlashDate => Passes("array")
          /\ value.s = DashDate =>
                /\ pc' = "return"
                /\ result'.kind = "InvalidValue"
                /\ result'.details =
                      DashDate \o <<" does not match tha pattern ">>
                      \o every_escaped_slash_unescaped(DatePattern)]_vars

----------------------------------------------------------------------------
(* SpecReference: a root with a reference, over several definitions tables *)

\* "#/definitions/Bar"
RefBar ==
    <<"#", "/", "d", "e", "f", "i", "n", "i", "t", "i", "o", "n", "s", "/",
      "B", "a", "r">>

\* references without a `/`, with another prefix, and with nothing after the `/`
References ==
    {RefFoo, RefGone, RefBar, <<"F", "o", "o">>, <<"x", "/", "F", "o", "o">>,
     <<"F", "o", "o", "/">>, <<"#", "/">>}

AllOfNumber == WithSubschemas([DefaultSubschemas EXCEPT !.all_of = Some(<<TypeNumber>>)])

FooDefinitions ==
    {TypeString, SchemaBool(TRUE), SchemaBool(FALSE), ConstAndEnum, AllOfNumber,
     Dangling}

BarDefinitions == {ToFoo, [TypeString EXCEPT !.reference = Some(RefFoo)]}

DefinitionTables ==
    {<<Entry(<<"F", "o", "o">>, f)>> : f \in FooDefinitions}
    \cup {<<Entry(<<>>, SchemaBool(FALSE)), Entry(<<"B", "a", "r">>, b),
            Entry(<<"F", "o", "o">>, f)>> :
             b \in BarDefinitions, f \in FooDefinitions}

ReferenceSchemas ==
    {[DefaultObject EXCEPT !.reference = Some(r), !.instance_type = t] :
        r \in References,
        t \in {None, Some(Single("String")), Some(Single("Number"))}}

ReferenceValues == {VStr(StrX), VInt(1), VNull}

InitReference ==
    \E schema \in ReferenceSchemas, defs \in DefinitionTables, v \in ReferenceValues :
        Start(schema, defs, v)

SpecReference == InitReference /\ [][Next]_vars

IsPrefix(p, s) == Len(p) <= Len(s) /\ SubSeq(s, 1, Len(p)) = p

HasSlash(r) == \E i \in 1..Len(r) : r[i] = Slash

\* the text of r after its last `/`
LastSegment(r) ==
    LET last == CHOOSE i \in 1..Len(r) : r[i] = Slash /\ \A j \in (i + 1)..Len(r) : r[j] # Slash
    IN SubSeq(r, last + 1, Len(r))

\* the keyword groups of the root that come before its reference all pass
EarlierGroupsPass ==
    is_ok(Then(check_instance_type(Root.path, Root.schema.instance_type, value),
          Then(check_const_enum(Root.path, Root.schema.const_value,
                                Root.schema.enum_values, value),
          Then(check_subschemas(Root.path, Root.schema.subschemas, definitions, value),
          Then(check_number(Root.path, Root.schema.number, value),
          Then(check_string(Root.path, Root.schema.string, value),
          Then(check_array(Root.path, Root.schema.array, definitions, value),
               check_object(Root.path, Root.schema.object, definitions, value))))))))

RootReference == Unwrap(Root.schema.reference)

ReferenceReached == pc = "done" /\ IsSome(Root.schema.reference) /\ EarlierGroupsPass

Resolvable(r) == HasSlash(r) /\ HasKey(definitions, LastSegment(r))

\* the result of the root is that of the definition named by the text after
\* the last `/` of r, validated at the path r; or the schema error
ReferenceResult(r) ==
    IF Resolvable(r)
    THEN /\ result = Outcome(validate_schema(r, Get(definitions, LastSegment(r)),
                                             definitions, value))
         /\ \E j \in 1..Len(calls) :
               /\ calls[j].path = r
               /\ calls[j].schema = Get(definitions, LastSegment(r))
               /\ calls[j].v = value
    ELSE result = Outcome(InvalidSchema(Root.path, <<"invalid reference: ">> \o r, <<>>))

\* the references set by the schemas of the definitions table
InnerReferences ==
    {Unwrap(definitions[i].v.reference) :
        i \in {k \in 1..Len(definitions) :
                 /\ definitions[k].v.kind = "Object"
                 /\ IsSome(definitions[k].v.reference)}}

\* C7 as stated: a reference r is resolved by the text after its last `/`
\* alone; a name that is no key of the definitions table, or an r without a
\* `/`, gives InvalidSchema at the caller's path; otherwise the result is that
\* of validating the same value against the looked-up definition at the path
\* r, and every error then carries a path that starts with r.
C7_ReferencePathAlways ==
    ReferenceReached =>
        /\ ReferenceResult(RootReference)
        /\ (Resolvable(RootReference) /\ result.kind # "Ok") =>
              IsPrefix(RootReference, result.path)

\* C7: a reference r is resolved by the text after its last `/` alone; a name
\* that is no key of the definitions table, or an r without a `/`, gives
\* InvalidSchema at the caller's path; otherwise the result is that of
\* validating the same value against the looked-up definition at the path r,
\* and every error then carries a path that starts with r, or with the
\* reference that the definitions resolve further on the way to the error.
C7_Reference ==
    ReferenceReached =>
        /\ ReferenceResult(RootReference)
        /\ (Resolvable(RootReference) /\ result.kind # "Ok") =>
              \E s \in {RootReference} \cup InnerReferences : IsPrefix(s, result.path)

\* the definition Bar refers to Foo in turn, and Foo rejects the value
C7_Witness ==
    /\ ReferenceReached
    /\ RootReference = RefBar
    /\ value = VInt(1)
    /\ result.kind = "InvalidValue"
    /\ result.path = RefFoo

\* the name after the last `/` alone resolves the reference
C7_OtherPrefix ==
    /\ ReferenceReached
    /\ RootReference = <<"x", "/", "F", "o", "o">>
    /\ value = VInt(1)
    /\ result.kind = "InvalidValue"
    /\ result.path = <<"x", "/", "F", "o", "o">>

----------------------------------------------------------------------------
(* SpecObject: an object group over objects of at most MaxProps properties *)

PropertyTables ==
    {<<>>, <<Entry(<<"a">>, SchemaBool(TRUE))>>, <<Entry(<<"a">>, TypeString)>>}

\* the regexes b; ^a and b$; and [, which does not compile
PatternTables ==
    {<<>>, <<Entry(<<"b">>, SchemaBool(TRUE))>>,
     <<Entry(<<"^", "a">>, TypeString), Entry(<<"b", "$">>, SchemaBool(TRUE))>>,
     <<Entry(<<"[">>, SchemaBool(TRUE))>>}

\* {maxLength: 1}
ShortName ==
    [DefaultObject EXCEPT !.string = Some([DefaultString EXCEPT !.max_length = Some(1)])]

ObjectGroups ==
    {[DefaultObjectValidation EXCEPT !.properties = props,
                                     !.pattern_properties = pats,
                                     !.additional_properties = additional,
                                     !.property_names = names,
                                     !.min_properties = min] :
        props \in PropertyTables, pats \in PatternTables,
        additional \in {None, Some(SchemaBool(FALSE)), Some(TypeNumber)},
        names \in {None, Some(ShortName)},
        min \in {None, Some(1)}}

ObjectSchemas == {[DefaultObject EXCEPT !.object = Some(o)] : o \in ObjectGroups}

Keys == {<<"a">>, <<"b">>, <<"a", "b">>, <<"c">>}

Maps ==
    {m \in SeqsUpTo({Entry(k, v) : k \in Keys, v \in {VInt(1), VStr(StrX)}}, MaxProps) :
        \A i \in 1..Len(m), j \in 1..Len(m) : i # j => m[i].k # m[j].k}

ObjectValues == {VObj(m) : m \in Maps} \cup {VInt(1)}

InitObject ==
    \E schema \in ObjectSchemas, v \in ObjectValues : Start(schema, DefsFoo, v)

SpecObject == InitObject /\ [][Next]_vars

TopObject == Unwrap(Top.schema.object)

PatternsCompile ==
    \A i \in 1..Len(TopObject.pattern_properties) :
        Regex_new(TopObject.pattern_properties[i].k).ok

\* the key is one of properties, or some regex of patternProperties matches it
Matched(key) ==
    \/ \E i \in 1..Len(TopObject.properties) : TopObject.properties[i].k = key
    \/ \E i \in 1..Len(TopObject.pattern_properties) :
          Regex_is_match(Regex_new(TopObject.pattern_properties[i].k), key)

\* the step being taken validates v against schema at the path of the key
Applied(key, schema, v) ==
    \E j \in NewCalls :
        /\ calls'[j].path = Top.path \o <<".">> \o key
        /\ calls'[j].schema = schema
        /\ calls'[j].v = v

ObjectStep ==
    /\ IsSome(TopObject.additional_properties) =>
          \A i \in 1..Len(value.m) :
              IF Matched(value.m[i].k)
              THEN ~Applied(value.m[i].k, Unwrap(TopObject.additional_properties),
                            value.m[i].v)
              ELSE pc' = "reference" =>
                      Applied(value.m[i].k, Unwrap(TopObject.additional_properties),
                              value.m[i].v)
    /\ (IsSome(TopObject.property_names) /\ pc' = "reference") =>
          \A i \in 1..Len(value.m) :
              Applied(value.m[i].k, Unwrap(TopObject.property_names),
                      VStr(value.m[i].k))
    /\ (/\ TopObject.properties = <<>>
        /\ TopObject.pattern_properties = <<>>
        /\ TopObject.additional_properties = Some(SchemaBool(FALSE))) =>
          /\ value.m # <<>> => pc' = "return" /\ result'.kind = "InvalidValue"
          /\ (/\ value.m = <<>>
              /\ TopObject.min_properties = None
              /\ TopObject.required = <<>>) => Passes("reference")

\* C8: the additionalProperties schema is never applied to a key of the value
\* that is a key of properties or that a regex of patternProperties matches,
\* and a pass over the properties that runs to its end has applied it to every
\* other key, and propertyNames (to the key as a string) to every key, matched
\* or not.  A group with empty properties and patternProperties and with
\* additionalProperties = false rejects every object that has a key and, with
\* no other constraint, accepts the empty object.
C8_AdditionalProperties ==
    [][(/\ pc = "object" /\ IsSome(Top.schema.object) /\ value.t = "obj"
        /\ PatternsCompile) => ObjectStep]_vars

\* {a: "x", c: 1} under properties {a}, a pattern, additionalProperties
\* {type: number} and propertyNames: c alone is checked against the number type
C8_Witness ==
    /\ pc = "reference"
    /\ IsSome(Top.schema.object)
    /\ TopObject.properties # <<>>
    /\ TopObject.pattern_properties # <<>>
    /\ TopObject.additional_properties = Some(TypeNumber)
    /\ IsSome(TopObject.property_names)
    /\ value = VObj(<<Entry(<<"a">>, VStr(StrX)), Entry(<<"c">>, VInt(1))>>)
    /\ \E j \in 1..Len(calls) :
          calls[j].path = <<"$", ".", "c">> /\ calls[j].schema = TypeNumber
    /\ \A j \in 1..Len(calls) :
          calls[j].schema = TypeNumber => calls[j].path = <<"$", ".", "c">>

\* additionalProperties = false alone rejects an object that has a key
C8_ClosedObject ==
    /\ pc = "return"
    /\ IsSome(Top.schema.object)
    /\ TopObject.properties = <<>>
    /\ TopObject.pattern_properties = <<>>
    /\ TopObject.additional_properties = Some(SchemaBool(FALSE))
    /\ value = VObj(<<Entry(<<"c">>, VInt(1))>>)
    /\ result.kind = "InvalidValue"
    /\ result.path = <<"$", ".", "c">>

----------------------------------------------------------------------------
(* SpecArray: an array group over arrays of at most MaxItems items *)

ArrayGroups ==
    {[DefaultArray EXCEPT !.unique_items = unique, !.items = items,
                          !.additional_items = additional, !.max_items = max] :
        unique \in {None, Some(TRUE), Some(FALSE)},
        items \in {None, Some(Single(TypeNumber)),
                   Some(Vec(<<TypeNumber, SchemaBool(TRUE)>>))},
        additional \in {None, Some(SchemaBool(FALSE))},
        max \in {None, Some(2)}}

ArraySchemas == {[DefaultObject EXCEPT !.array = Some(a)] : a \in ArrayGroups}

\* 1, 2, 1.0 and [1]
Items == {VInt(1), VInt(2), VNum(1, TRUE), VArr(<<VInt(1)>>)}

ArrayValues == {VArr(a) : a \in SeqsUpTo(Items, MaxItems)} \cup {VInt(1)}

InitArray ==
    \E schema \in ArraySchemas, v \in ArrayValues : Start(schema, DefsFoo, v)

SpecArray == InitArray /\ [][Next]_vars

TopArray == Unwrap(Top.schema.array)

\* the indices (from 0) of the items that equal an item at another index
Duplicated(arr) ==
    {i \in 0..(Len(arr) - 1) :
        \E j \in 0..(Len(arr) - 1) : i # j /\ ValEq(arr[i + 1], arr[j + 1])}

Least(S) == CHOOSE x \in S : \A y \in S : x <= y

\* the indices after i of the items that equal the item at index i
LaterEqual(arr, i) ==
    {j \in (i + 1)..(Len(arr) - 1) : ValEq(arr[i + 1], arr[j + 1])}

UniqueError(i, j) ==
    <<"items should be unique, but items at [", ToString(i), "] and [",
      ToString(j), "] are the same">>

IsUniqueError(r) ==
    Len(r.details) > 0 /\ r.details[1] = "items should be unique, but items at ["

SizesPass ==
    /\ IsSome(TopArray.max_items) => Len(value.a) <= Unwrap(TopArray.max_items)
    /\ IsSome(TopArray.min_items) => Len(value.a) >= Unwrap(TopArray.min_items)

UniqueStep ==
    IF TopArray.unique_items = Some(TRUE) /\ Duplicated(value.a) # {}
    THEN /\ pc' = "return"
         /\ result'.kind = "InvalidValue"
         /\ result'.path = Top.path
         /\ result'.details =
               UniqueError(Least(Duplicated(value.a)),
                           Least(LaterEqual(value.a, Least(Duplicated(value.a)))))
    ELSE ~IsUniqueError(result')

\* C10: with uniqueItems = true the array check fails for uniqueness iff two
\* distinct indices hold equal items, and the error names the pair (i, j),
\* i < j, of the least index i that has a duplicate and the least index j
\* after i whose item equals it; with uniqueItems absent or false no array
\* fails for uniqueness.
C10_UniqueItems ==
    [][(/\ pc = "array" /\ IsSome(Top.schema.array) /\ value.t = "arr"
        /\ SizesPass) => UniqueStep]_vars

\* [1, 2, 2] fails, naming 1 and 2
C10_Witness ==
    /\ pc = "return"
    /\ IsSome(Top.schema.array)
    /\ TopArray.unique_items = Some(TRUE)
    /\ value = VArr(<<VInt(1), VInt(2), VInt(2)>>)
    /\ result.details = UniqueError(1, 2)

\* [1, 1.0, 2] under uniqueItems = true and [2, 2] under uniqueItems = false pass
C10_NoDuplicate ==
    /\ pc = "object"
    /\ IsSome(Top.schema.array)
    /\ \/ /\ TopArray.unique_items = Some(TRUE)
          /\ value = VArr(<<VInt(1), VNum(1, TRUE), VInt(2)>>)
       \/ /\ TopArray.unique_items = Some(FALSE)
          /\ value = VArr(<<VInt(2), VInt(2)>>)

----------------------------------------------------------------------------
(* SpecOrder: roots that set any of the keyword groups, each able to fail *)

\* {maximum: 1}
BelowOne ==
    [DefaultNumber EXCEPT !.maximum = Some(1)]

\* {pattern: "["}
BadPattern == [DefaultString EXCEPT !.pattern = Some(<<"[">>)]

\* {items: false}
NoItems == [DefaultArray EXCEPT !.items = Some(Single(SchemaBool(FALSE)))]

\* {additionalProperties: false}
NoProperties ==
    [DefaultObjectValidation EXCEPT !.additional_properties = Some(SchemaBool(FALSE))]

OrderSubschemas ==
    {[DefaultSubschemas EXCEPT !.all_of = a, !.any_of = b, !.one_of = c,
                               !.not = d, !.if_schema = e] :
        a \in {None, Some(<<TypeString>>)},
        b \in {None, Some(<<TypeNumber>>)},
        c \in {None, Some(<<SchemaBool(TRUE), TypeString>>)},
        d \in {None, Some([DefaultObject EXCEPT !.instance_type = Some(Single("Null"))])},
        e \in {None, Some(SchemaBool(TRUE))}}

AnyGroups ==
    {[DefaultObject EXCEPT !.instance_type = t, !.const_value = c[1],
                           !.enum_values = c[2], !.subschemas = sub,
                           !.number = n, !.string = str, !.array = arr,
                           !.object = obj, !.reference = r] :
        t \in {None, Some(Single("String")), Some(Single("Number"))},
        c \in {<<None, None>>, <<Some(VInt(1)), None>>,
               <<Some(VInt(1)), Some(<<VInt(1)>>)>>},
        sub \in {None} \cup {Some(x) : x \in OrderSubschemas \ {DefaultSubschemas}},
        n \in {None, Some(BelowOne)},
        str \in {None, Some(BadPattern)},
        arr \in {None, Some(NoItems)},
        obj \in {None, Some(NoProperties)},
        r \in {None, Some(RefGone), Some(RefFoo)}}

\* the number of keyword groups (the combinators counted one by one) set
GroupsSet(schema) ==
    Len(schema.instance_type) + Len(schema.const_value) + Len(schema.number)
    + Len(schema.string) + Len(schema.array) + Len(schema.object)
    + Len(schema.reference)
    + (IF IsSome(schema.subschemas)
       THEN Len(Unwrap(schema.subschemas).all_of) + Len(Unwrap(schema.subschemas).any_of)
            + Len(Unwrap(schema.subschemas).one_of) + Len(Unwrap(schema.subschemas).not)
            + Len(Unwrap(schema.subschemas).if_schema)
       ELSE 0)

\* at most MaxGroups groups set
OrderSchemas == {schema \in AnyGroups : GroupsSet(schema) <= MaxGroups}

OrderValues ==
    {VStr(StrX), VInt(1), VInt(0), VNull, VArr(<<VInt(1)>>), VArr(<<>>),
     VObj(<<Entry(<<"a">>, VInt(1))>>)}

InitOrder ==
    \E schema \in OrderSchemas, v \in OrderValues : Start(schema, DefsFoo, v)

SpecOrder == InitOrder /\ [][Next]_vars

SubOf(schema) ==
    IF IsSome(schema.subschemas) THEN Unwrap(schema.subschemas) ELSE DefaultSubschemas

IfPresent(o, r) == IF IsSome(o) THEN r ELSE Ok(<<>>)

\* the result of each keyword group of the node f on its own, in the order
\* type, const/enum, allOf, anyOf, oneOf, not, if/then/else, number, string,
\* array, object, reference
GroupResults(f) ==
    <<check_instance_type(f.path, f.schema.instance_type, value),
      check_const_enum(f.path, f.schema.const_value, f.schema.enum_values, value),
      IfPresent(SubOf(f.schema).all_of,
                check_all_of(f.path, Unwrap(SubOf(f.schema).all_of), definitions, value)),
      IfPresent(SubOf(f.schema).any_of,
                check_any_of(f.path, Unwrap(SubOf(f.schema).any_of), definitions, value)),
      IfPresent(SubOf(f.schema).one_of,
                check_one_of(f.path, Unwrap(SubOf(f.schema).one_of), definitions, value)),
      IfPresent(SubOf(f.schema).not,
                check_not(f.path, Unwrap(SubOf(f.schema).not), definitions, value)),
      check_if_then_else(f.path, SubOf(f.schema).if_schema, SubOf(f.schema).then_schema,
                         SubOf(f.schema).else_schema, definitions, value),
      check_number(f.path, f.schema.number, value),
      check_string(f.path, f.schema.string, value),
      check_array(f.path, f.schema.array, definitions, value),
      check_object(f.path, f.schema.object, definitions, value),
      check_reference(f.path, f.schema.reference, definitions, value)>>

\* the groups of the node f that the value violates, by their place in the order
Violated(f) == {k \in 1..12 : ~is_ok(GroupResults(f)[k])}

FirstViolated(f) == Least(Violated(f))

\* C11: a node that has returned has returned the error of the first of its
\* keyword groups, in the order type, const/enum, allOf, anyOf, oneOf, not,
\* if/then/else, number, string, array, object, reference, that the value
\* violates, and Ok iff the value violates none; the sub-schema validations a
\* finished run has made are those of the groups up to that first violated
\* group, and none of a later group.
C11_FailFast ==
    /\ pc \in {"return", "done"} =>
          IF Violated(Top) = {} THEN result.kind = "Ok"
          ELSE result = Outcome(GroupResults(Top)[FirstViolated(Top)])
    /\ (pc = "done" /\ Violated(Root) # {}) =>
          calls = ConcatCalls(SubSeq(GroupResults(Root), 1, FirstViolated(Root)), 1)

\* the type check fails on a node whose pattern does not compile and whose
\* reference dangles: the error is the type's
C11_Witness ==
    /\ pc = "done"
    /\ Root.schema.instance_type = Some(Single("String"))
    /\ Root.schema.string = Some(BadPattern)
    /\ Root.schema.reference = Some(RefGone)
    /\ value = VInt(1)
    /\ Violated(Root) = {1, 9, 12}
    /\ result.kind = "InvalidValue"
    /\ result.details = <<"value is not of type ", "String">>

----------------------------------------------------------------------------
(* SpecItems: items as one schema or as a list, with and without additionalItems *)

TypeNull == [DefaultObject EXCEPT !.instance_type = Some(Single("Null"))]

ItemSchemas == {TypeNumber, TypeString, SchemaBool(TRUE)}

ItemsGroups ==
    {[DefaultArray EXCEPT !.items = items, !.additional_items = additional] :
        items \in {None} \cup {Some(Single(x)) : x \in ItemSchemas}
                  \cup {Some(Vec(xs)) : xs \in SeqsUpTo(ItemSchemas, MaxList)},
        additional \in {None, Some(SchemaBool(FALSE)), Some(TypeNull)}}

ItemsSchemas == {[DefaultObject EXCEPT !.array = Some(a)] : a \in ItemsGroups}

ItemsValues ==
    {VArr(a) : a \in SeqsUpTo({VInt(1), VStr(StrX), VNull}, MaxItems)} \cup {VNull}

InitItems ==
    \E schema \in ItemsSchemas, v \in ItemsValues : Start(schema, DefsFoo, v)

SpecItems == InitItems /\ [][Next]_vars

\* the schema that the item at index i (from 0) is to be validated against,
\* if any: the one schema; or the i-th of the list; or, past the list,
\* additionalItems
ExpectedItem(i) ==
    IF ~IsSome(TopArray.items) THEN None
    ELSE IF Unwrap(TopArray.items).single THEN Some(Unwrap(TopArray.items).v[1])
    ELSE IF i < Len(Unwrap(TopArray.items).v) THEN Some(Unwrap(TopArray.items).v[i + 1])
    ELSE TopArray.additional_items

ItemResult(i) ==
    validate_schema(item_path(Top.path, i), Unwrap(ExpectedItem(i)), definitions,
                    value.a[i + 1])

FailingItems ==
    {i \in 0..(Len(value.a) - 1) : IsSome(ExpectedItem(i)) /\ ~is_ok(ItemResult(i))}

\* the step being taken validates some value against some schema at the path
\* of index i
AppliedAt(i) == {j \in NewCalls : calls'[j].path = item_path(Top.path, i)}

ItemsStep ==
    /\ IF FailingItems # {}
       THEN /\ pc' = "return"
            /\ result' = Outcome(ItemResult(Least(FailingItems)))
       ELSE ~IsSome(TopArray.contains) => Passes("object")
    /\ ~IsSome(TopArray.contains) =>
          /\ \A i \in 0..(Len(value.a) - 1) :
                IF /\ IsSome(ExpectedItem(i))
                   /\ (FailingItems # {} => i <= Least(FailingItems))
                THEN /\ AppliedAt(i) # {}
                     /\ \A j \in AppliedAt(i) :
                           /\ calls'[j].schema = Unwrap(ExpectedItem(i))
                           /\ calls'[j].v = value.a[i + 1]
                ELSE AppliedAt(i) = {}
          /\ \A j \in NewCalls :
                \E i \in 0..(Len(value.a) - 1) : calls'[j].path = item_path(Top.path, i)

\* C12: once the sizes and uniqueItems pass, with one items schema every item
\* i is validated against it at the path of index i; with a list of L schemas
\* the item i is validated against the i-th schema for i below L and below
\* the array's length (no schema is applied at an index the array does not
\* have), and an item at an index from L on against additionalItems when it
\* is present and against nothing otherwise; additionalItems is applied to
\* nothing when items is one schema or absent.  The error returned is that of
\* the failing item of least index, and no item after it is validated.
C12_Items ==
    [][(/\ pc = "array" /\ IsSome(Top.schema.array) /\ value.t = "arr"
        /\ SizesPass
        /\ is_ok(check_unique_items(Top.path, TopArray.unique_items, value.a)))
          => ItemsStep]_vars

\* [1, "x", "x"] under items [number, string] and additionalItems {type: null}:
\* the third item fails against additionalItems
C12_Witness ==
    /\ pc = "return"
    /\ IsSome(Top.schema.array)
    /\ TopArray.items = Some(Vec(<<TypeNumber, TypeString>>))
    /\ TopArray.additional_items = Some(TypeNull)
    /\ value = VArr(<<VInt(1), VStr(StrX), VStr(StrX)>>)
    /\ result.kind = "InvalidValue"
    /\ result.path = <<"$", "[", "2", "]">>
    /\ Len(calls) = 3

\* a list longer than the array, and additionalItems beside a single schema:
\* the array passes
C12_Ignored ==
    /\ pc = "object"
    /\ IsSome(Top.schema.array)
    /\ \/ /\ TopArray.items = Some(Vec(<<TypeNumber, TypeString>>))
          /\ value = VArr(<<VInt(1)>>)
       \/ /\ TopArray.items = Some(Single(TypeNumber))
          /\ TopArray.additional_items = Some(SchemaBool(FALSE))
          /\ value = VArr(<<VInt(1), VInt(1)>>)

----------------------------------------------------------------------------
(* SpecCycle: references that chain through the definitions, with and       *)
(* without a cycle; every step that can be taken is taken in the end        *)

ToBar == [DefaultObject EXCEPT !.reference = Some(RefBar)]

\* {type: string, $ref: "#/definitions/Foo"}
StringToFoo == [TypeString EXCEPT !.reference = Some(RefFoo)]

\* {patternProperties: {"[": true}}
BadPatternProperty ==
    [DefaultObject EXCEPT
        !.object = Some([DefaultObjectValidation EXCEPT
                            !.pattern_properties = <<Entry(<<"[">>, SchemaBool(TRUE))>>])]

CycleTables ==
    {<<Entry(<<"B", "a", "r">>, b), Entry(<<"F", "o", "o">>, f)>> :
        b \in {ToFoo, ToBar, [TypeNumber EXCEPT !.reference = Some(RefFoo)],
               SchemaBool(TRUE), Dangling, BadPatternProperty},
        f \in {ToFoo, StringToFoo, TypeString, ToBar,
               [TypeString EXCEPT !.reference = Some(RefBar)]}}

CycleSchemas == {ToFoo, ToBar, StringToFoo, DefaultObject, Dangling, BadPatternProperty}

CycleValues == {VStr(StrX), VInt(1), VObj(<<Entry(<<"a">>, VInt(1))>>)}

InitCycle ==
    \E schema \in CycleSchemas, defs \in CycleTables, v \in CycleValues :
        Start(schema, defs, v)

\* the engine runs on one thread and is never suspended: a step that is
\* enabled is taken
SpecCycle == InitCycle /\ [][Next]_vars /\ WF_vars(Next)

\* the keyword groups of a node that come before its reference all pass; the
\* path shows in the text of an error only
PassesBeforeReference(schema) ==
    is_ok(Then(check_instance_type(<<"$">>, schema.instance_type, value),
          Then(check_const_enum(<<"$">>, schema.const_value, schema.enum_values, value),
          Then(check_subschemas(<<"$">>, schema.subschemas, definitions, value),
          Then(check_number(<<"$">>, schema.number, value),
          Then(check_string(<<"$">>, schema.string, value),
          Then(check_array(<<"$">>, schema.array, definitions, value),
               check_object(<<"$">>, schema.object, definitions, value))))))))

RefersOn(schema) ==
    /\ schema.kind = "Object"
    /\ IsSome(schema.reference)
    /\ Resolvable(Unwrap(schema.reference))

RECURSIVE ChainCyclic(_, _)
\* the chain of references that starts at schema comes back to a definition
\* it has been through (seen: the names of those so far)
ChainCyclic(schema, seen) ==
    /\ RefersOn(schema)
    /\ \/ LastSegment(Unwrap(schema.reference)) \in seen
       \/ ChainCyclic(Get(definitions, LastSegment(Unwrap(schema.reference))),
                      seen \cup {LastSegment(Unwrap(schema.reference))})

RECURSIVE FollowsCycle(_, _)
\* the same, every node on the way passing its other keyword groups for the
\* value, so that the validation resolves its reference
FollowsCycle(schema, seen) ==
    /\ RefersOn(schema)
    /\ PassesBeforeReference(schema)
    /\ \/ LastSegment(Unwrap(schema.reference)) \in seen
       \/ FollowsCycle(Get(definitions, LastSegment(Unwrap(schema.reference))),
                       seen \cup {LastSegment(Unwrap(schema.reference))})

C13_CycleNotFollowed ==
    /\ pc = "done"
    /\ Root.schema = ToFoo
    /\ Get(definitions, <<"F", "o", "o">>) = StringToFoo
    /\ value = VInt(1)
    /\ result.kind = "InvalidValue"

====
